---- MODULE Spec2Model ----
\* policygopher: dump of an organization's IAM policies to CSV.
\* Model of resourcemanager.go (resourceManager, policy conversion, addBindings,
\* the per-tier row collectors) and of printToCsv / Row.Print.
EXTENDS Integers, Sequences, FiniteSets, TLC

VARIABLES
    pc,         \* position of printToCsv: start, new, org, folders, projects, print, done, panic
    result,     \* what printToCsv returned ("" while running)
    nrm,        \* NewResourceManager: its orgId argument, the ancestry it got, how it ended
    orgId,      \* resourceManager.orgId
    db,         \* the role lookup service (iam Roles.Get): URI -> iam.Role, fixed for a run
    roleMap,    \* resourceManager.roleMap
    calls,      \* collaborator calls issued so far, in order
    allRows,    \* the *[]*Row printToCsv got from GetAllPolicyRows: Nil or Ptr(rows)
    idx,        \* index of the next row of the printing loop
    written,    \* lines handed to the bufio.Writer with Fprintf, in order
    writerErr,  \* the writer's sticky error
    hist,       \* rows GetRole has been called with -> outcome of the first call
    last,       \* the latest GetRole call: row, URIs tried, service calls, outcome
    flat,       \* arguments of the addBindings call under check
    rows,       \* the slice addBindings appends to
    src,        \* a provider-side policy and its schema variant
    canon       \* the canonical Policy converted from src: Nil or Ptr(policy)

vars == <<pc, result, nrm, orgId, db, roleMap, calls, allRows, idx, written,
          writerErr, hist, last, flat, rows, src, canon>>

-----------------------------------------------------------------------------
\* Bounds of the model.
MaxGetRole == 3
MaxBindings == 2
MaxMembers == 2
MaxFolders == 2
MaxProjects == 1
MaxAncestors == 2

-----------------------------------------------------------------------------
\* Go pointers: nil, or a pointer to a value.
Nil == <<>>
Ptr(x) == <<x>>
Deref(p) == p[1]

SeqsUpTo(S, n) == UNION {[1..k -> S] : k \in 0..n}

RECURSIVE Flatten(_)
Flatten(ss) == IF ss = <<>> THEN <<>> ELSE Head(ss) \o Flatten(Tail(ss))

-----------------------------------------------------------------------------
\* Role resolution (resourceManager.GetRole and its cache).

\* The roles the lookup service may know; a run's service knows a subset.
KnownRoles ==
    ("roles/viewer" :> [Name |-> "roles/viewer", IncludedPermissions |-> <<"permA", "permB">>])
    @@ ("projects/P/roles/viewer" :> [Name |-> "projects/P/roles/viewer", IncludedPermissions |-> <<"permX">>])
    @@ ("projects/P/roles/myrole" :> [Name |-> "projects/P/roles/myrole", IncludedPermissions |-> <<"permC">>])
    @@ ("organizations/O/roles/myrole" :> [Name |-> "organizations/O/roles/myrole", IncludedPermissions |-> <<>>])

RoleServices == {[u \in S |-> KnownRoles[u]] : S \in SUBSET DOMAIN KnownRoles}

EmptyRole == [Name |-> "", IncludedPermissions |-> <<>>]

\* fmt.Sprintf("%ss/%s/%s", row.Type, row.Resource, row.Role)
TryUriWithRoles(row) == row.Type \o "s/" \o row.Resource \o "/roles/" \o row.Role
TryUri(row) == row.Type \o "s/" \o row.Resource \o "/" \o row.Role

\* r.service.Roles.Get(uri).Do(): the role, or an error.
RolesGet(uri) ==
    IF uri \in DOMAIN db THEN [role |-> db[uri], err |-> FALSE]
    ELSE [role |-> EmptyRole, err |-> TRUE]

\* _getRoleByUri: cache hit, or one service call whose success is stored.
getRoleByUriNoStore(rm, uri) ==
    IF uri \in DOMAIN rm
    THEN [role |-> rm[uri], err |-> FALSE, roleMap |-> rm, gets |-> <<>>]
    ELSE [role |-> RolesGet(uri).role, err |-> RolesGet(uri).err,
          roleMap |-> rm, gets |-> <<uri>>]
getRoleByUri(rm, uri) ==
    IF uri \in DOMAIN rm
    THEN [role |-> rm[uri], err |-> FALSE, roleMap |-> rm, gets |-> <<>>]
    ELSE IF RolesGet(uri).err
         THEN [role |-> EmptyRole, err |-> TRUE, roleMap |-> rm, gets |-> <<uri>>]
         ELSE [role |-> RolesGet(uri).role, err |-> FALSE,
               roleMap |-> (uri :> RolesGet(uri).role) @@ rm, gets |-> <<uri>>]

\* GetRole: the scoped URI first for project and organization rows, then the
\* role reference as it stands. tried: the URIs handed to _getRoleByUri;
\* gets: the URIs that went to the service.
GetRoleBareFirst(rm, row) ==
    LET bare == getRoleByUri(rm, row.Role)
        scoped == getRoleByUri(bare.roleMap, TryUri(row))
    IN  IF ~bare.err \/ row.Type \notin {"project", "organization"}
        THEN [role |-> bare.role, err |-> bare.err, roleMap |-> bare.roleMap,
              gets |-> bare.gets, tried |-> <<row.Role>>]
        ELSE [role |-> scoped.role, err |-> scoped.err, roleMap |-> scoped.roleMap,
              gets |-> bare.gets \o scoped.gets, tried |-> <<row.Role, TryUri(row)>>]
GetRole(rm, row) ==
    LET isScoped == row.Type = "project" \/ row.Type = "organization"
        first == getRoleByUri(rm, TryUri(row))
    IN  IF isScoped /\ ~first.err
        THEN [role |-> first.role, err |-> FALSE, roleMap |-> first.roleMap,
              gets |-> first.gets, tried |-> <<TryUri(row)>>]
        ELSE LET rm1 == IF isScoped THEN first.roleMap ELSE rm
                 second == getRoleByUri(rm1, row.Role)
             IN  [role |-> IF second.err THEN EmptyRole ELSE second.role,
                  err |-> second.err,
                  roleMap |-> second.roleMap,
                  gets |-> (IF isScoped THEN first.gets ELSE <<>>) \o second.gets,
                  tried |-> (IF isScoped THEN <<TryUri(row)>> ELSE <<>>) \o <<row.Role>>]

\* GetRolePermissions: the role's IncludedPermissions, or an error.
GetRolePermissions(rm, row) ==
    LET r == GetRole(rm, row)
    IN  [permissions |-> IF r.err THEN <<>> ELSE r.role.IncludedPermissions,
         err |-> r.err, roleMap |-> r.roleMap, gets |-> r.gets, tried |-> r.tried]

\* One collaborator call of the trace. res: the Resource the rows of the
\* concerned resource carry ("" for a listing); row: the index in the printed
\* sequence of the row a role lookup is for (0: none).
\* ok: whether the collaborator answered without error.
Call(op, arg, res, row, ok) ==
    [op |-> op, arg |-> arg, res |-> res, row |-> row, ok |-> ok]
LookupCalls(gets, row, k) ==
    [j \in 1..Len(gets) |-> Call("Roles.Get", gets[j], row.Resource, k, ~RolesGet(gets[j]).err)]

NoCall == [row |-> [Resource |-> "", Type |-> "", Role |-> "", Member |-> ""],
           tried |-> <<>>, gets |-> <<>>, err |-> FALSE, permissions |-> <<>>,
           before |-> <<>>, repeat |-> FALSE, n |-> 0]

\* The rows GetRole is exercised with.
RoleRefs == {"roles/viewer", "roles/myrole", "myrole"}
Resources == {<<"project", "P">>, <<"organization", "O">>, <<"folder", "folders/1">>}
RoleRows == {[Resource |-> r[2], Type |-> r[1], Role |-> ref, Member |-> "user:a@x.com"] :
                r \in Resources, ref \in RoleRefs}

\* printToCsv not running.
IdleState ==
    /\ pc = "idle" /\ result = "" /\ orgId = "" /\ allRows = Nil /\ idx = 1
    /\ nrm = [orgArg |-> "", ancestry |-> Nil, outcome |-> "none"]
    /\ written = <<>> /\ writerErr = FALSE

NoFlat == [bindings |-> <<>>, resource |-> "", resType |-> "", before |-> <<>>,
           done |-> FALSE]
NoSrc == [schema |-> "", policy |-> [Bindings |-> <<>>, Etag |-> ""]]

InitRole ==
    /\ IdleState
    /\ db \in RoleServices
    /\ roleMap = <<>>
    /\ calls = <<>>
    /\ hist = <<>>
    /\ last = NoCall
    /\ flat = NoFlat /\ rows = <<>> /\ src = NoSrc /\ canon = Nil

\* A caller resolves the role of some row on the one resourceManager.
GetRoleCall ==
    /\ pc = "idle"
    /\ last.n < MaxGetRole
    /\ \E row \in RoleRows :
         LET r == GetRolePermissions(roleMap, row)
         IN  /\ roleMap' = r.roleMap
             /\ calls' = calls \o LookupCalls(r.gets, row, 0)
             /\ last' = [row |-> row, tried |-> r.tried, gets |-> r.gets,
                         err |-> r.err, permissions |-> r.permissions,
                         before |-> roleMap,
                         repeat |-> row \in DOMAIN hist, n |-> last.n + 1]
             /\ hist' = IF row \in DOMAIN hist THEN hist
                        ELSE (row :> [err |-> r.err, permissions |-> r.permissions]) @@ hist
    /\ UNCHANGED <<pc, result, nrm, orgId, db, allRows, idx, written, writerErr,
                   flat, rows, src, canon>>

NextRole == GetRoleCall

SpecRole == InitRole /\ [][NextRole]_vars

-----------------------------------------------------------------------------
\* Policy conversion (Policy/Binding/Expr convertV1 and convertV2).

Members == {"user:a@x.com", "group:g@x.com"}
BindingRoles == {"roles/viewer", "roles/myrole"}
Exprs == {[Description |-> "office hours", Expression |-> "request.time < t",
           Location |-> "a.cel", Title |-> "expiry"]}

\* What the provider returns (v1beta1.Binding and v2beta1.Binding have the same
\* fields): Condition is nil or points to an Expr.
RawBindings ==
    {[Condition |-> c, Members |-> m, Role |-> r] :
        c \in {Nil} \cup {Ptr(e) : e \in Exprs},
        m \in SeqsUpTo(Members, MaxMembers),
        r \in BindingRoles}
RawPolicies ==
    {[Bindings |-> bs, Etag |-> "BwWW"] : bs \in SeqsUpTo(RawBindings, MaxBindings)}

\* Expr.convertV1 / Expr.convertV2
ExprConvertV1(expr) ==
    [Description |-> expr.Description, Expression |-> expr.Expression,
     Location |-> expr.Location, Title |-> expr.Title]
ExprConvertV2(expr) ==
    [Description |-> expr.Description, Expression |-> expr.Expression,
     Location |-> expr.Location, Title |-> expr.Title]

\* &Binding{}: the receiver convertBindingsV1/V2 hand to Binding.convertV1/V2.
NewBinding == [Condition |-> Nil, Members |-> <<>>, Role |-> ""]

\* Binding.convertV1 / convertV2: the test is on the receiver's Condition
\* (b.Condition), not on the source's.
BindingConvertV1(b, binding) ==
    LET b1 == [b EXCEPT !.Members = binding.Members, !.Role = binding.Role]
    IN  IF b1.Condition # Nil
        THEN [b1 EXCEPT !.Condition = Ptr(ExprConvertV1(Deref(binding.Condition)))]
        ELSE b1
BindingConvertV2(b, binding) ==
    LET b1 == [b EXCEPT !.Members = binding.Members, !.Role = binding.Role]
    IN  IF b1.Condition # Nil
        THEN [b1 EXCEPT !.Condition = Ptr(ExprConvertV2(Deref(binding.Condition)))]
        ELSE b1

\* Policy.convertBindingsV1 / convertBindingsV2
ConvertBindingsV1(bindings) ==
    [i \in 1..Len(bindings) |-> BindingConvertV1(NewBinding, bindings[i])]
ConvertBindingsV2(bindings) ==
    [i \in 1..Len(bindings) |-> BindingConvertV2(NewBinding, bindings[i])]

\* Policy.convertV1 / convertV2
PolicyConvertV1(policy) ==
    [Bindings |-> ConvertBindingsV1(policy.Bindings), Etag |-> policy.Etag]
PolicyConvertV2(policy) ==
    [Bindings |-> ConvertBindingsV2(policy.Bindings), Etag |-> policy.Etag]

InitConv ==
    /\ IdleState
    /\ db = <<>> /\ roleMap = <<>> /\ calls = <<>> /\ hist = <<>> /\ last = NoCall
    /\ flat = NoFlat /\ rows = <<>>
    /\ src \in {[schema |-> v, policy |-> p] : v \in {"v1", "v2"}, p \in RawPolicies}
    /\ canon = Nil

\* GetIamPolicyForProject / GetIamPolicyForOrganization: policy.convertV1(response)
NormalizeV1 ==
    /\ pc = "idle" /\ canon = Nil /\ src.schema = "v1"
    /\ canon' = Ptr(PolicyConvertV1(src.policy))
    /\ UNCHANGED <<pc, result, nrm, orgId, db, roleMap, calls, allRows, idx, written,
                   writerErr, hist, last, flat, rows, src>>

\* GetIamPolicyForFolder: policy.convertV2(response)
NormalizeV2 ==
    /\ pc = "idle" /\ canon = Nil /\ src.schema = "v2"
    /\ canon' = Ptr(PolicyConvertV2(src.policy))
    /\ UNCHANGED <<pc, result, nrm, orgId, db, roleMap, calls, allRows, idx, written,
                   writerErr, hist, last, flat, rows, src>>

NextConv == NormalizeV1 \/ NormalizeV2

SpecConv == InitConv /\ [][NextConv]_vars

-----------------------------------------------------------------------------
\* Flattening (addBindings).

NewRow(resource, resType, role, member) ==
    [Resource |-> resource, Type |-> resType, Role |-> role, Member |-> member]

RECURSIVE AppendNew(_, _)
AppendNew(rs, new) ==
    IF new = <<>> THEN rs
    ELSE AppendNew(IF \E k \in 1..Len(rs) : rs[k] = Head(new) THEN rs
                   ELSE Append(rs, Head(new)), Tail(new))

\* addBindings: one row per binding and member, appended to *rows.
addBindingsDedup(bindings, rs, resource, resType) ==
    AppendNew(rs, Flatten([i \in 1..Len(bindings) |->
                  [j \in 1..Len(bindings[i].Members) |->
                      NewRow(resource, resType, bindings[i].Role, bindings[i].Members[j])]]))
addBindings(bindings, rs, resource, resType) ==
    rs \o Flatten([i \in 1..Len(bindings) |->
              [j \in 1..Len(bindings[i].Members) |->
                  NewRow(resource, resType, bindings[i].Role, bindings[i].Members[j])]])

FlatBindings ==
    {[Condition |-> Nil, Members |-> m, Role |-> r] :
        m \in SeqsUpTo(Members, MaxMembers), r \in BindingRoles}

InitFlat ==
    /\ IdleState
    /\ db = <<>> /\ roleMap = <<>> /\ calls = <<>> /\ hist = <<>> /\ last = NoCall
    /\ src = NoSrc /\ canon = Nil
    /\ flat \in {[bindings |-> bs, resource |-> r[2], resType |-> r[1], before |-> pre,
                  done |-> FALSE] :
                    bs \in SeqsUpTo(FlatBindings, MaxBindings),
                    r \in Resources,
                    pre \in {<<>>, <<NewRow("O", "organization", "roles/viewer",
                                            "user:a@x.com")>>}}
    /\ rows = flat.before

AddBindingsCall ==
    /\ pc = "idle" /\ ~flat.done
    /\ rows' = addBindings(flat.bindings, rows, flat.resource, flat.resType)
    /\ flat' = [flat EXCEPT !.done = TRUE]
    /\ UNCHANGED <<pc, result, nrm, orgId, db, roleMap, calls, allRows, idx, written,
                   writerErr, hist, last, src, canon>>

NextFlat == AddBindingsCall

SpecFlat == InitFlat /\ [][NextFlat]_vars

-----------------------------------------------------------------------------
\* Organization-id resolution (NewResourceManager).

\* v1beta1.Ancestor values of a GetAncestry response: ResourceId is a pointer.
RawAncestors ==
    {[ResourceId |-> Ptr([Id |-> "p-1", Type |-> "project"])],
     [ResourceId |-> Ptr([Id |-> "O", Type |-> "organization"])],
     [ResourceId |-> Nil]}
AncestryResponses ==
    {[ok |-> FALSE, ancestor |-> <<>>]}
    \cup {[ok |-> TRUE, ancestor |-> a] : a \in SeqsUpTo(RawAncestors, MaxAncestors)}

\* What credential discovery and the file system answer.
Credentials ==
    [defaultErr : BOOLEAN, defaultProject : {"", "p-1"}, path : {"", "creds.json"},
     statErr : BOOLEAN, readErr : BOOLEAN, jsonErr : BOOLEAN, fileProject : {"", "p-1"}]

getProjectIdFromCredentials(cred) ==
    IF ~cred.defaultErr /\ cred.defaultProject # ""
    THEN [id |-> cred.defaultProject, err |-> ""]
    ELSE IF cred.path = "" THEN [id |-> "", err |-> "no default credentials"]
    ELSE IF cred.statErr THEN [id |-> "", err |-> "unable to stat credential file"]
    ELSE IF cred.readErr THEN [id |-> "", err |-> "error opening credential file"]
    ELSE IF cred.jsonErr THEN [id |-> "", err |-> "error getting credentials from data"]
    ELSE IF cred.fileProject = "" THEN [id |-> "", err |-> "no project found"]
    ELSE [id |-> cred.fileProject, err |-> ""]

\* convertAncestors: a.ResourceId is dereferenced for every ancestor.
convertAncestors(ancestors) ==
    IF \E i \in 1..Len(ancestors) : ancestors[i].ResourceId = Nil
    THEN [panic |-> TRUE, results |-> <<>>]
    ELSE [panic |-> FALSE,
          results |-> [i \in 1..Len(ancestors) |->
                          [ResourceId |-> Ptr([Id |-> Deref(ancestors[i].ResourceId).Id,
                                               Type |-> Deref(ancestors[i].ResourceId).Type])]]]

\* GetAncestryForProject
GetAncestryForProject(projectId, resp) ==
    IF ~resp.ok THEN [panic |-> FALSE, err |-> TRUE, ancestry |-> <<>>]
    ELSE [panic |-> convertAncestors(resp.ancestor).panic, err |-> FALSE,
          ancestry |-> convertAncestors(resp.ancestor).results]

\* GetOrgIdFromProjectId: thisProjectAncestry[len(thisProjectAncestry)-1] is
\* indexed without a length check.
GetOrgIdFromProjectId(projectId, resp) ==
    LET a == GetAncestryForProject(projectId, resp)
        call == <<Call("Projects.GetAncestry", projectId, "", 0, resp.ok)>>
    IN  IF a.panic THEN [outcome |-> "panic", orgId |-> "", calls |-> call]
        ELSE IF a.err THEN [outcome |-> "error", orgId |-> "", calls |-> call]
        ELSE IF Len(a.ancestry) = 0 THEN [outcome |-> "panic", orgId |-> "", calls |-> call]
        ELSE [outcome |-> "ok",
              orgId |-> Deref(a.ancestry[Len(a.ancestry)].ResourceId).Id,
              calls |-> call]

\* NewResourceManager(ctx, credentialsPath, orgId, projectId)
NewResourceManager(svcErr, orgArg, projectArg, cred, resp) ==
    IF svcErr THEN [outcome |-> "error", err |-> "NewService", orgId |-> "", calls |-> <<>>]
    ELSE IF orgArg # "" THEN [outcome |-> "ok", err |-> "", orgId |-> orgArg, calls |-> <<>>]
    ELSE LET p == IF projectArg = "" THEN getProjectIdFromCredentials(cred)
                  ELSE [id |-> projectArg, err |-> ""]
             g == GetOrgIdFromProjectId(p.id, resp)
         IN  IF p.err # ""
             THEN [outcome |-> "error", err |-> "Unable to identify OrgId",
                   orgId |-> "", calls |-> <<>>]
             ELSE [outcome |-> g.outcome,
                   err |-> IF g.outcome = "error" THEN "Error getting OrgId from ProjectId"
                           ELSE "",
                   orgId |-> g.orgId, calls |-> g.calls]

-----------------------------------------------------------------------------
\* Row collection (GetOrgPolicyRows, GetFolderPolicyRows, GetProjectPolicyRows,
\* GetAllPolicyRows).

Min(a, b) == IF a < b THEN a ELSE b

\* Sequences without repetition over S, of length at most n.
ListsOf(S, n) == {l \in SeqsUpTo(S, n) : \A i, j \in 1..Len(l) : i # j => l[i] # l[j]}

FolderNames == {"folders/" \o ToString(i) : i \in 1..MaxFolders}
ProjectPool ==
    {[Name |-> IF i = 1 THEN "P" ELSE "P" \o ToString(i), ProjectId |-> "p-" \o ToString(i)] :
        i \in 1..MaxProjects}

FolderListings ==
    {[ok |-> FALSE, items |-> <<>>]}
    \cup {[ok |-> TRUE, items |-> l] : l \in ListsOf(FolderNames, MaxFolders)}
ProjectListings ==
    {[ok |-> FALSE, items |-> <<>>]}
    \cup {[ok |-> TRUE, items |-> l] : l \in ListsOf(ProjectPool, MaxProjects)}

\* What the policy retrieval service may answer for a resource.
EnvPolicies ==
    {[Bindings |-> <<>>, Etag |-> "BwWW"],
     [Bindings |-> <<[Condition |-> Nil,
                      Members |-> <<"user:a@x.com", "group:g@x.com">>,
                      Role |-> "roles/viewer"]>>, Etag |-> "BwWW"],
     [Bindings |-> <<[Condition |-> Ptr(CHOOSE e \in Exprs : TRUE),
                      Members |-> <<"user:b@x.com">>,
                      Role |-> "roles/myrole"]>>, Etag |-> "BwWW"]}
PolicyResponses ==
    {[ok |-> FALSE, policy |-> [Bindings |-> <<>>, Etag |-> ""]]}
    \cup {[ok |-> TRUE, policy |-> p] : p \in EnvPolicies}

\* The collaborator calls one policy retrieval issues.
PolicyCallEager(op, arg, res, resp) ==
    <<Call(op, arg, res, 0, resp.ok)>>
    \o [i \in 1..Len(resp.policy.Bindings) |->
           Call("Roles.Get", resp.policy.Bindings[i].Role, res, 0, TRUE)]
PolicyCall(op, arg, res, resp) == <<Call(op, arg, res, 0, resp.ok)>>

\* GetOrgPolicyRows with GetIamPolicyForOrganization
GetOrgPolicyRows(org, resp) ==
    LET call == PolicyCall("Organizations.GetIamPolicy", "organizations/" \o org, org, resp)
    IN  IF ~resp.ok THEN [rows |-> <<>>, err |-> TRUE, calls |-> call]
        ELSE [rows |-> addBindings(PolicyConvertV1(resp.policy).Bindings, <<>>,
                                   org, "organization"),
              err |-> FALSE, calls |-> call]

\* The loop of GetFolderPolicyRows over the listed folders, from folder k on.
RECURSIVE FolderLoop(_, _, _, _, _)
FolderLoop(folders, resps, k, rs, cs) ==
    IF k > Len(folders) THEN [rows |-> rs, err |-> FALSE, calls |-> cs]
    ELSE LET call == PolicyCall("Folders.GetIamPolicy", folders[k], folders[k], resps[k])
         IN  IF ~resps[k].ok THEN [rows |-> rs, err |-> TRUE, calls |-> cs \o call]
             ELSE FolderLoop(folders, resps, k + 1,
                             addBindings(PolicyConvertV2(resps[k].policy).Bindings, rs,
                                         folders[k], "folder"),
                             cs \o call)

\* GetFolderPolicyRows with FoldersList and GetIamPolicyForFolder
GetFolderPolicyRows(org, listing, resps) ==
    LET list == <<Call("Folders.List", "organizations/" \o org, "", 0, listing.ok)>>
    IN  IF ~listing.ok THEN [rows |-> <<>>, err |-> TRUE, calls |-> list]
        ELSE FolderLoop(listing.items, resps, 1, <<>>, list)

\* The loop of GetProjectPolicyRows: the policy is fetched by ProjectId, the
\* rows carry the project's Name.
RECURSIVE ProjectLoop(_, _, _, _, _)
ProjectLoop(projects, resps, k, rs, cs) ==
    IF k > Len(projects) THEN [rows |-> rs, err |-> FALSE, calls |-> cs]
    ELSE LET call == PolicyCall("Projects.GetIamPolicy", projects[k].ProjectId,
                                projects[k].Name, resps[k])
         IN  IF ~resps[k].ok THEN [rows |-> rs, err |-> TRUE, calls |-> cs \o call]
             ELSE ProjectLoop(projects, resps, k + 1,
                              addBindings(PolicyConvertV1(resps[k].policy).Bindings, rs,
                                          projects[k].Name, "project"),
                              cs \o call)

\* GetProjectPolicyRows with ProjectsList and GetIamPolicyForProject
GetProjectPolicyRows(org, listing, resps) ==
    LET list == <<Call("Projects.List", "parent.type:organization parent.id:" \o org,
                       "", 0, listing.ok)>>
    IN  IF ~listing.ok THEN [rows |-> <<>>, err |-> TRUE, calls |-> list]
        ELSE ProjectLoop(listing.items, resps, 1, <<>>, list)

\* GetAllPolicyRows after one tier: "if err != nil { return nil, err }", else
\* "allRows = append(allRows, *newRows...)". ret: what a return at this point
\* hands back.
CollectPartial(acc, tier) ==
    [acc |-> acc \o tier.rows, err |-> tier.err, ret |-> Ptr(acc \o tier.rows)]
CollectPrepend(acc, tier) ==
    IF tier.err THEN [acc |-> acc, err |-> TRUE, ret |-> Nil]
    ELSE [acc |-> tier.rows \o acc, err |-> FALSE, ret |-> Ptr(tier.rows \o acc)]
Collect(acc, tier) ==
    IF tier.err THEN [acc |-> acc, err |-> TRUE, ret |-> Nil]
    ELSE [acc |-> acc \o tier.rows, err |-> FALSE, ret |-> Ptr(acc \o tier.rows)]

-----------------------------------------------------------------------------
\* Printing (Row.Print and printToCsv).

\* fmt.Fprintf(writer, "%s,%s,%s,%s,%s\n", ...)
FormatLine(a, b, c, d, e) == a \o "," \o b \o "," \o c \o "," \o d \o "," \o e \o "\n"
Header == FormatLine("Resource", "Type", "Member", "Role", "Permission")

\* Row.Print: the permissions printed for a row.
PrintPermissionsDropRow(r) == IF r.err THEN <<>> ELSE r.permissions
PrintPermissions(r) == IF r.err THEN <<"UNKNOWN">> ELSE r.permissions

\* Row.Print's loop: Fprintf is called for the permissions in order and the loop
\* breaks at the first error; accepted: how many calls the writer takes without
\* error. The lines handed to the writer, the failing one included.
PrintLines(row, k, permissions, accepted) ==
    [j \in 1..Min(accepted + 1, Len(permissions)) |->
        [row |-> k,
         line |-> FormatLine(row.Resource, row.Type, row.Member, row.Role, permissions[j])]]

\* The role lookup services of a run of printToCsv.
RunServices ==
    {[u \in S |-> KnownRoles[u]] :
        S \in {{"roles/viewer", "projects/P/roles/myrole"},
               {"projects/P/roles/viewer", "organizations/O/roles/myrole"}}}

Init ==
    /\ pc = "start" /\ result = "" /\ orgId = "" /\ allRows = Nil /\ idx = 1
    /\ nrm = [orgArg |-> "", ancestry |-> Nil, outcome |-> "none"]
    /\ written = <<>> /\ writerErr = FALSE
    /\ db \in RunServices
    /\ roleMap = <<>> /\ calls = <<>> /\ hist = <<>> /\ last = NoCall
    /\ flat = NoFlat /\ rows = <<>> /\ src = NoSrc /\ canon = Nil

\* printToCsv up to the header line: an existing output file ends the run at
\* once, os.Create or the header's Fprintf may fail.
Start ==
    /\ pc = "start"
    /\ \E exists \in BOOLEAN, createOk \in BOOLEAN, headerOk \in BOOLEAN :
         /\ pc' = IF ~exists /\ createOk /\ headerOk THEN "new" ELSE "done"
         /\ result' = IF exists THEN "skipped"
                      ELSE IF ~createOk THEN "os.Create"
                      ELSE IF ~headerOk THEN "Fprintf" ELSE ""
         /\ written' = IF ~exists /\ createOk THEN <<[row |-> 0, line |-> Header]>>
                       ELSE <<>>
         /\ writerErr' = (~exists /\ createOk /\ ~headerOk)
    /\ UNCHANGED <<nrm, orgId, db, roleMap, calls, allRows, idx, hist, last, flat,
                   rows, src, canon>>

\* resman, err := NewResourceManager(...); an error ends the run, an index out
\* of range or nil dereference crashes it.
NewResourceManagerStep ==
    /\ pc = "new"
    /\ \E svcErr \in BOOLEAN, orgArg \in {"", "O"}, projectArg \in {"", "p-1"},
          cred \in Credentials, resp \in AncestryResponses :
         LET r == NewResourceManager(svcErr, orgArg, projectArg, cred, resp)
         IN  /\ nrm' = [orgArg |-> orgArg,
                        ancestry |-> IF r.calls # <<>> /\ resp.ok THEN Ptr(resp.ancestor)
                                     ELSE Nil,
                        outcome |-> r.outcome]
             /\ orgId' = r.orgId
             /\ calls' = calls \o r.calls
             /\ pc' = IF r.outcome = "ok" THEN "org"
                      ELSE IF r.outcome = "panic" THEN "panic" ELSE "done"
             /\ result' = IF r.outcome = "ok" THEN ""
                          ELSE IF r.outcome = "panic" THEN "panic" ELSE r.err
    /\ UNCHANGED <<db, roleMap, allRows, idx, written, writerErr, hist, last, flat,
                   rows, src, canon>>

\* GetAllPolicyRows, first tier. (NewResourceManager's frame is gone.)
GetOrgPolicyRowsStep ==
    /\ pc = "org"
    /\ \E resp \in PolicyResponses :
         LET tier == GetOrgPolicyRows(orgId, resp)
             c == Collect(<<>>, tier)
         IN  /\ calls' = calls \o tier.calls
             /\ rows' = c.acc
             /\ pc' = IF c.err THEN "done" ELSE "folders"
             /\ result' = IF c.err THEN "Organizations.GetIamPolicy" ELSE ""
             /\ allRows' = IF c.err THEN c.ret ELSE allRows
    /\ nrm' = [nrm EXCEPT !.ancestry = Nil]
    /\ UNCHANGED <<orgId, db, roleMap, idx, written, writerErr, hist, last, flat,
                   src, canon>>

\* GetAllPolicyRows, second tier.
GetFolderPolicyRowsStep ==
    /\ pc = "folders"
    /\ \E listing \in FolderListings :
       \E resps \in [1..Len(listing.items) -> PolicyResponses] :
         LET tier == GetFolderPolicyRows(orgId, listing, resps)
             c == Collect(rows, tier)
         IN  /\ calls' = calls \o tier.calls
             /\ rows' = c.acc
             /\ pc' = IF c.err THEN "done" ELSE "projects"
             /\ result' = IF c.err THEN tier.calls[Len(tier.calls)].op ELSE ""
             /\ allRows' = IF c.err THEN c.ret ELSE allRows
    /\ UNCHANGED <<nrm, orgId, db, roleMap, idx, written, writerErr, hist, last, flat,
                   src, canon>>

\* GetAllPolicyRows, third tier and return; printToCsv goes on to print.
GetProjectPolicyRowsStep ==
    /\ pc = "projects"
    /\ \E listing \in ProjectListings :
       \E resps \in [1..Len(listing.items) -> PolicyResponses] :
         LET tier == GetProjectPolicyRows(orgId, listing, resps)
             c == Collect(rows, tier)
         IN  /\ calls' = calls \o tier.calls
             /\ rows' = c.acc
             /\ pc' = IF c.err THEN "done" ELSE "print"
             /\ result' = IF c.err THEN tier.calls[Len(tier.calls)].op ELSE ""
             /\ allRows' = c.ret
    /\ UNCHANGED <<nrm, orgId, db, roleMap, idx, written, writerErr, hist, last, flat,
                   src, canon>>

\* One turn of printToCsv's loop: row.Print(writer, resman); its error is
\* logged and the loop goes on.
PrintRow ==
    /\ pc = "print" /\ idx <= Len(Deref(allRows))
    /\ LET row == Deref(allRows)[idx]
           r == GetRolePermissions(roleMap, row)
           permissions == PrintPermissions(r)
       IN  \E accepted \in 0..Len(permissions) :
             /\ writerErr => accepted = 0
             /\ written' = written \o PrintLines(row, idx, permissions, accepted)
             /\ writerErr' = (writerErr \/ accepted < Len(permissions))
             /\ roleMap' = r.roleMap
             /\ calls' = calls \o LookupCalls(r.gets, row, idx)
    /\ idx' = idx + 1
    /\ UNCHANGED <<pc, result, nrm, orgId, db, allRows, hist, last, flat, rows,
                   src, canon>>

\* printToCsv after the loop: os.Rename, writer.Flush (which returns the
\* writer's sticky error), f.Close.
Finish ==
    /\ pc = "print" /\ idx > Len(Deref(allRows))
    /\ \E renameOk \in BOOLEAN, flushOk \in BOOLEAN, closeOk \in BOOLEAN :
         /\ writerErr => ~flushOk
         /\ result' = IF ~renameOk THEN "os.Rename"
                      ELSE IF ~flushOk THEN "writer.Flush"
                      ELSE IF ~closeOk THEN "f.Close" ELSE "ok"
    /\ pc' = "done"
    /\ UNCHANGED <<nrm, orgId, db, roleMap, calls, allRows, idx, written, writerErr,
                   hist, last, flat, rows, src, canon>>

Next ==
    \/ Start
    \/ NewResourceManagerStep
    \/ GetOrgPolicyRowsStep
    \/ GetFolderPolicyRowsStep
    \/ GetProjectPolicyRowsStep
    \/ PrintRow
    \/ Finish

Spec == Init /\ [][Next]_vars

-----------------------------------------------------------------------------
\* Properties of role resolution, checked under SpecRole.

Resolvable(uri) == uri \in DOMAIN db
PermissionsOf(uri) == KnownRoles[uri].IncludedPermissions
IsScopedKind(row) == row.Type \in {"project", "organization"}

\* C4 (as claimed): GetRole called again with a row it was called with before
\* issues at most one call to the role lookup service and returns what the
\* first call returned, whatever the row and whatever the first call's outcome.
C4_SecondCallAtMostOneLookup ==
    last.repeat =>
        /\ Len(last.gets) <= 1
        /\ last.err = hist[last.row].err
        /\ last.permissions = hist[last.row].permissions

\* C4 (amended): when the first GetRole call for a row succeeded, a later call
\* with the same row issues at most one call to the role lookup service,
\* succeeds too and returns the same permissions. (A failed resolution is not
\* memoized: repeating it repeats every lookup.)
C4_MemoizedAfterSuccess ==
    (last.repeat /\ ~hist[last.row].err) =>
        /\ Len(last.gets) <= 1
        /\ ~last.err
        /\ last.permissions = hist[last.row].permissions

\* C4 witness: a repeated call, with other calls in between, of a row resolved
\* through the bare reference after its scoped URI failed: one lookup is issued.
C4_Witness ==
    /\ last.repeat /\ ~hist[last.row].err
    /\ last.n = 3 /\ Cardinality(DOMAIN hist) = 2
    /\ Len(last.gets) = 1 /\ Len(last.tried) = 2

\* C5: for a project or organization row the scoped URI is looked up first; when
\* it resolves it is the result and nothing else is looked up; when it fails the
\* role reference as it stands is looked up next and its outcome (success or
\* error) is the outcome of the resolution. For a folder row only the role
\* reference as it stands is looked up. The service sees the same order.
C5_LookupOrder ==
    last.n > 0 =>
        LET row == last.row
            scoped == TryUri(row)
        IN  /\ IsScopedKind(row) /\ Resolvable(scoped) =>
                   /\ last.tried = <<scoped>>
                   /\ ~last.err
                   /\ last.permissions = PermissionsOf(scoped)
            /\ IsScopedKind(row) /\ ~Resolvable(scoped) =>
                   /\ last.tried = <<scoped, row.Role>>
                   /\ last.gets[1] = scoped
                   /\ last.err = ~Resolvable(row.Role)
                   /\ Resolvable(row.Role) => last.permissions = PermissionsOf(row.Role)
            /\ row.Type = "folder" =>
                   /\ last.tried = <<row.Role>>
                   /\ \A j \in 1..Len(last.gets) : last.gets[j] = row.Role
                   /\ last.err = ~Resolvable(row.Role)
                   /\ Resolvable(row.Role) => last.permissions = PermissionsOf(row.Role)
            /\ last.gets = SelectSeq(last.tried, LAMBDA u : u \notin DOMAIN last.before)

\* C5 witness: a project row whose scoped lookup failed at the service and whose
\* role reference then resolved.
C5_Witness ==
    /\ last.n > 0 /\ last.row.Type = "project"
    /\ last.gets = <<TryUri(last.row), last.row.Role>>
    /\ ~last.err /\ last.permissions = <<"permA", "permB">>

\* C6 (as claimed): for a project or organization row the first URI looked up
\* is "{kind}s/{resource}/roles/{role}"; a row of kind project, resource P and
\* role myrole resolves to the custom role projects/P/roles/myrole without a
\* lookup of the bare reference.
C6_ScopedUriHasRolesSegment ==
    (last.n > 0 /\ IsScopedKind(last.row)) =>
        /\ last.tried[1] =
               last.row.Type \o "s/" \o last.row.Resource \o "/roles/" \o last.row.Role
        /\ (/\ last.row.Type = "project" /\ last.row.Resource = "P"
            /\ last.row.Role = "myrole"
            /\ DOMAIN db = {"projects/P/roles/myrole"}) =>
               /\ ~last.err
               /\ last.permissions = <<"permC">>
               /\ last.tried = <<"projects/P/roles/myrole">>

\* C6 (amended): for a project or organization row the first URI looked up is
\* "{kind}s/{resource}/{role}": the role reference is appended as it stands, no
\* "roles/" segment is inserted. So the custom role projects/P/roles/myrole is
\* found through the scoped URI, without a lookup of the bare reference, for
\* the role reference roles/myrole; for the role reference myrole the lookups
\* are projects/P/myrole and then myrole.
C6_ScopedUriShape ==
    (last.n > 0 /\ IsScopedKind(last.row)) =>
        /\ last.tried[1] =
               last.row.Type \o "s/" \o last.row.Resource \o "/" \o last.row.Role
        /\ (/\ last.row.Type = "project" /\ last.row.Resource = "P"
            /\ DOMAIN db = {"projects/P/roles/myrole"}) =>
               /\ last.row.Role = "roles/myrole" =>
                      /\ ~last.err
                      /\ last.permissions = <<"permC">>
                      /\ last.tried = <<"projects/P/roles/myrole">>
                      /\ \A j \in 1..Len(last.gets) : last.gets[j] # "roles/myrole"
               /\ last.row.Role = "myrole" =>
                      /\ last.err
                      /\ last.tried = <<"projects/P/myrole", "myrole">>

\* C6 witness: the custom role exists only as projects/P/roles/myrole and the
\* row (project, P, roles/myrole) has been resolved through the service.
C6_Witness ==
    /\ last.n > 0 /\ DOMAIN db = {"projects/P/roles/myrole"}
    /\ last.row.Type = "project" /\ last.row.Resource = "P"
    /\ last.row.Role = "roles/myrole"
    /\ last.gets = <<"projects/P/roles/myrole">> /\ ~last.err

-----------------------------------------------------------------------------
\* Properties of conversion and flattening.

RECURSIVE MemberCount(_)
MemberCount(bindings) ==
    IF bindings = <<>> THEN 0
    ELSE Len(Head(bindings).Members) + MemberCount(Tail(bindings))

\* C7: addBindings appends exactly one row per (binding, member) pair, in
\* binding order and then member order, each carrying the resource, the kind,
\* the binding's role and the member: the rows added number the sum of the
\* bindings' member counts and the rows already there are unchanged.
C7_FlattenFanOut ==
    flat.done =>
        LET bs == flat.bindings
            base == Len(flat.before)
        IN  /\ Len(rows) = base + MemberCount(bs)
            /\ SubSeq(rows, 1, base) = flat.before
            /\ \A i \in 1..Len(bs) : \A j \in 1..Len(bs[i].Members) :
                   LET row == rows[base + MemberCount(SubSeq(bs, 1, i - 1)) + j]
                   IN  /\ row.Resource = flat.resource
                       /\ row.Type = flat.resType
                       /\ row.Role = bs[i].Role
                       /\ row.Member = bs[i].Members[j]

\* C7 witness: two bindings of two members each, with one (role, member) pair
\* in both bindings, flattened onto a slice that already holds a row.
C7_Witness ==
    /\ flat.done /\ Len(flat.before) = 1 /\ Len(rows) = 5
    /\ Len(flat.bindings) = 2
    /\ flat.bindings[1].Role = flat.bindings[2].Role
    /\ flat.bindings[1].Members = <<"user:a@x.com", "group:g@x.com">>
    /\ flat.bindings[2].Members = <<"group:g@x.com", "user:a@x.com">>

\* C9: for both schema variants a source binding with a condition yields a
\* canonical Binding whose condition is present with the same description,
\* expression, location and title, a source binding without one yields a
\* Binding without one, and both variants give the same canonical result.
C9_ConditionPassThrough ==
    canon # Nil =>
        LET raw == src.policy.Bindings
            got == Deref(canon).Bindings
        IN  /\ Len(got) = Len(raw)
            /\ \A i \in 1..Len(raw) :
                   /\ raw[i].Condition = Nil => got[i].Condition = Nil
                   /\ raw[i].Condition # Nil =>
                          /\ got[i].Condition # Nil
                          /\ Deref(got[i].Condition) = Deref(raw[i].Condition)
            /\ PolicyConvertV1(src.policy) = PolicyConvertV2(src.policy)

-----------------------------------------------------------------------------
\* Properties of a run of printToCsv, checked under Spec.

AggregationOps ==
    {"Organizations.GetIamPolicy", "Folders.List", "Folders.GetIamPolicy",
     "Projects.List", "Projects.GetIamPolicy"}
PolicyOps == {"Organizations.GetIamPolicy", "Folders.GetIamPolicy", "Projects.GetIamPolicy"}

KindRank(kind) == IF kind = "organization" THEN 1 ELSE IF kind = "folder" THEN 2 ELSE 3

\* The lines handed to the writer for the k-th row.
LinesOf(k) == SelectSeq(written, LAMBDA w : w.row = k)

\* Neither candidate URI of the row's role resolves at the lookup service.
Unresolvable(row) ==
    /\ ~Resolvable(row.Role)
    /\ IsScopedKind(row) => ~Resolvable(TryUri(row))

\* C1: when the organization policy fetch, the folder listing, a folder's policy
\* fetch, the project listing or a project's policy fetch fails, it is the last
\* call the run issues, the run ends with that error, GetAllPolicyRows hands
\* back no rows at all (nil) and nothing but the header is written.
C1_FailFastNoRows ==
    \A k \in 1..Len(calls) :
        (calls[k].op \in AggregationOps /\ ~calls[k].ok) =>
            /\ k = Len(calls)
            /\ pc = "done"
            /\ result = calls[k].op
            /\ allRows = Nil
            /\ Len(written) = 1

\* C1 witness: the policy fetch of the second of two listed folders fails after
\* the organization and the first folder have yielded rows.
C1_Witness ==
    /\ pc = "done" /\ Len(calls) >= 4
    /\ calls[Len(calls)].op = "Folders.GetIamPolicy" /\ ~calls[Len(calls)].ok
    /\ calls[Len(calls) - 1].op = "Folders.GetIamPolicy"
    /\ Len(rows) >= 1 /\ rows[1].Type = "organization"
    /\ allRows = Nil

\* C2: in the rows a successful GetAllPolicyRows returns, every organization
\* row comes before every folder row and every folder row before every project
\* row, whatever the listings report and in whatever order: along the sequence
\* the kind never steps back from project to folder or from folder to
\* organization.
C2_TierOrder ==
    allRows # Nil =>
        \A i \in 1..(Len(Deref(allRows)) - 1) :
            KindRank(Deref(allRows)[i].Type) <= KindRank(Deref(allRows)[i + 1].Type)

\* C2 witness: rows of all three kinds, the folders listed as folders/2 and
\* then folders/1, each with rows.
C2_Witness ==
    /\ allRows # Nil
    /\ \E i, j, k, l \in 1..Len(Deref(allRows)) :
         /\ i < j /\ j < k /\ k < l
         /\ Deref(allRows)[i].Type = "organization"
         /\ Deref(allRows)[j].Resource = "folders/2"
         /\ Deref(allRows)[k].Resource = "folders/1"
         /\ Deref(allRows)[l].Type = "project"

\* C3: a row whose role resolves by neither candidate URI gets exactly one
\* line, with the permission UNKNOWN; the loop goes on to every later row (a
\* row whose role resolves gets one line per permission while the writer takes
\* them); and once the rows are collected the run can only fail in os.Rename,
\* writer.Flush or f.Close, never because of a resolution failure.
C3_UnknownRowRecoverable ==
    allRows # Nil =>
        LET rs == Deref(allRows)
        IN  /\ idx <= Len(rs) + 1
            /\ \A k \in 1..(idx - 1) :
                   /\ Unresolvable(rs[k]) =>
                          /\ Len(LinesOf(k)) = 1
                          /\ LinesOf(k)[1].line =
                                 rs[k].Resource \o "," \o rs[k].Type \o "," \o rs[k].Member
                                 \o "," \o rs[k].Role \o ",UNKNOWN\n"
                   /\ (~Unresolvable(rs[k]) /\ ~writerErr) =>
                          Len(LinesOf(k)) =
                              Len(PermissionsOf(IF IsScopedKind(rs[k]) /\ Resolvable(TryUri(rs[k]))
                                                THEN TryUri(rs[k]) ELSE rs[k].Role))
            /\ pc = "done" =>
                   /\ idx = Len(rs) + 1
                   /\ result \in {"ok", "os.Rename", "writer.Flush", "f.Close"}

\* C3 witness: a finished, successful run in which an unresolved row was
\* followed by a row printed with its permissions.
C3_Witness ==
    /\ pc = "done" /\ result = "ok" /\ allRows # Nil
    /\ \E k, l \in 1..Len(Deref(allRows)) :
         /\ k < l
         /\ Unresolvable(Deref(allRows)[k]) /\ Len(LinesOf(k)) = 1
         /\ ~Unresolvable(Deref(allRows)[l]) /\ Len(LinesOf(l)) = 2

\* C8: with no organization id supplied, NewResourceManager either ends with
\* the organization id set to the identifier of the last ancestor of the chosen
\* project, or returns an error before any listing or policy retrieval, whatever
\* the collaborators answer (an empty ancestry included).
C8_OrgIdResolvedOrError ==
    (nrm.outcome # "none" /\ nrm.orgArg = "") =>
        \/ /\ nrm.outcome = "ok"
           /\ pc = "org" =>
                  /\ nrm.ancestry # Nil
                  /\ Len(Deref(nrm.ancestry)) > 0
                  /\ LET a == Deref(nrm.ancestry)
                     IN  orgId = Deref(a[Len(a)].ResourceId).Id
        \/ /\ nrm.outcome = "error"
           /\ pc = "done" /\ result # "" /\ result # "ok"
           /\ \A k \in 1..Len(calls) : calls[k].op \notin AggregationOps

\* The index of the latest policy retrieval before the j-th call (0: none).
RECURSIVE LastFetchBefore(_)
LastFetchBefore(j) ==
    IF j <= 1 THEN 0
    ELSE IF calls[j - 1].op \in PolicyOps THEN j - 1 ELSE LastFetchBefore(j - 1)

\* C10 (as claimed): every role lookup for the rows of a resource is issued
\* before the policy of the next resource is fetched: when a role lookup is
\* issued, the latest policy fetched is that of the row's resource.
C10_ResolvedBeforeNextFetch ==
    \A j \in 1..Len(calls) :
        calls[j].op = "Roles.Get" =>
            /\ LastFetchBefore(j) > 0
            /\ calls[LastFetchBefore(j)].res = calls[j].res

\* C10 (amended): the run has two phases. GetAllPolicyRows fetches, normalizes
\* and flattens the policy of every resource, tier by tier, before any role is
\* looked up; the roles are then looked up while printing, row by row in the
\* order of the collected rows: once a role lookup has been issued only role
\* lookups follow, for rows of nondecreasing index.
C10_CollectThenResolve ==
    /\ \A j \in 1..(Len(calls) - 1) :
           calls[j].op = "Roles.Get" =>
               /\ calls[j + 1].op = "Roles.Get"
               /\ calls[j].row <= calls[j + 1].row
    /\ \A j \in 1..Len(calls) :
           calls[j].op = "Roles.Get" =>
               /\ allRows # Nil
               /\ 1 <= calls[j].row /\ calls[j].row < idx
               /\ calls[j].res = Deref(allRows)[calls[j].row].Resource

\* C10 witness: a role of an organization row is looked up after the policies
\* of a folder and of a project were fetched.
C10_Witness ==
    \E i, j, k \in 1..Len(calls) :
        /\ i < j /\ j < k
        /\ calls[i].op = "Folders.GetIamPolicy"
        /\ calls[j].op = "Projects.GetIamPolicy"
        /\ calls[k].op = "Roles.Get" /\ calls[k].res = orgId

====
